---- MODULE Spec2Model ----
(***************************************************************************)
(* PacketsManager of the es_dash_player (packets_manager.cc): the buffer   *)
(* of elementary-stream packets between the demuxers and the per-stream    *)
(* StreamManagers, its seek state and the pacing of UpdateBuffer.          *)
(*                                                                         *)
(* Time (TimeTicks, seconds) takes the values 0, TimeStep, 2 * TimeStep,   *)
(* ...  The priority queue packets_ is a sequence in pop order (its front  *)
(* is top()); an insertion may land anywhere among the entries of equal    *)
(* DTS.  OnEsPacket runs in a demuxer's thread and is two steps: the       *)
(* checks made before packets_lock_ is taken, and the locked insertion.    *)
(* The other operations are one step each.                                 *)
(***************************************************************************)
EXTENDS Integers, Sequences, FiniteSets, TLC

\* ------------------------------------------------------------------ bounds
TimeStep == 2          \* seconds between two values of the model's time
MaxDtsSteps == 3       \* DTS of a packet: 0 .. MaxDtsSteps * TimeStep
MaxPlaybackSteps == 1  \* playback_time: 0 .. MaxPlaybackSteps * TimeStep
MaxSeekSteps == 1      \* new_time and segment starts of OnSeekData
NumManagers == 1       \* StreamManager objects that SetStream can bind
MaxPackets == 2        \* Spec: packets that pass the checks of OnEsPacket
MaxFlowPackets == 3    \* SpecFlow: the same
MaxOrderPackets == 4   \* SpecOrder: the same
MaxLivePackets == 2    \* SpecLive: the same

\* --------------------------------------------------------------- constants
kAudioStreamId == 0
kVideoStreamId == 1
kAppendPacketsThreshold == 4
TimeTicksMax == 1000

StreamTypes == {kAudioStreamId, kVideoStreamId}
Managers == 1..NumManagers
NoManager == 0
NoPacket == [type |-> -1, dts |-> -1, key |-> FALSE]
NoTime == -1
Messages == {"kEndOfStream", "kAudioPkt", "kVideoPkt", "kUnsupported"}
DtsValues == {TimeStep * i : i \in 0..MaxDtsSteps}
PlaybackTimes == {TimeStep * i : i \in 0..MaxPlaybackSteps}
SeekTimes == {TimeStep * i : i \in 0..MaxSeekSteps}

VARIABLES
    streams_,                     \* StreamType -> manager bound, or NoManager
    seeking_,
    seek_segment_set_,            \* StreamType -> BOOLEAN
    seek_segment_video_time_,
    buffered_packets_timestamp_,  \* StreamType -> DTS of the last packet taken
    packets_,                     \* the priority queue, in pop order
    waiting,                      \* the packet a demuxer thread holds between
                                  \* the checks of OnEsPacket and the lock
    spinning,                     \* UpdateBuffer is in the loop of
                                  \* AppendPackets that cannot end
    stale,                        \* PrepareForSeek has run since the packet
                                  \* in `waiting` passed the checks
    accepted,                     \* packets that passed the checks so far
    in_order,                     \* StreamType -> every packet inserted since
                                  \* the last PrepareForSeek had a DTS >= the
                                  \* stream's horizon
    handed_dts,                   \* StreamType -> DTS of the last packet handed
                                  \* to the stream's manager since the last
                                  \* PrepareForSeek, or NoTime
    video_resolved,               \* the segment start the video manager's
                                  \* SetSegmentToTime returned to the last
                                  \* OnSeekData(Video) since the last
                                  \* PrepareForSeek, or NoTime
    seek_ended_at,                \* the entry at which the end-check ended
                                  \* the seek, while nothing has been handed
                                  \* over since; else NoPacket
    overtaken,                    \* a packet whose DTS is not above that
                                  \* entry's was inserted since
    last                          \* the last operation and what it did

vars == <<streams_, seeking_, seek_segment_set_, seek_segment_video_time_,
          buffered_packets_timestamp_, packets_, waiting, stale, spinning,
          accepted, in_order, handed_dts, video_resolved, seek_ended_at,
          overtaken, last>>

program == <<streams_, seeking_, seek_segment_set_, seek_segment_video_time_,
             buffered_packets_timestamp_, packets_>>

\* The record of an operation: what was called and what it did.
\*   locked        the operation holds packets_lock_ while it writes
\*                 (pp::AutoLock at lines 37, 70 and 184)
\*   after_seek    UpdateBuffer was called in a seek, or after a seek
\*                 ended and before any packet was handed over
\*   time          playback_time of UpdateBuffer
\*   was_seeking   seeking_ when UpdateBuffer was called
\*   discarded     the entries popped by CheckSeekEndConditions, in order
\*   handed        the AppendPacket calls made, in order
\*   type          the stream of OnSeekData
\*   new_time      the time of OnSeekData
\*   audio_seek_to the time OnSeekData gave the audio manager's
\*                 SetSegmentToTime, NoTime when it did not call it
\*   rejected      OnEsPacket: the message is no packet, or the packet's
\*                 stream has no manager, or its manager is seeking
\*   result        OnEsPacket: the packet passed the checks;
\*                 UpdateBuffer: the value returned
Call(op) ==
    [op |-> op,
     locked |-> op \in {"PrepareForSeek", "OnEsPacketLocked", "UpdateBuffer"},
     after_seek |-> FALSE, time |-> 0, was_seeking |-> FALSE, discarded |-> <<>>,
     handed |-> <<>>, type |-> kAudioStreamId, new_time |-> NoTime,
     audio_seek_to |-> NoTime, rejected |-> FALSE, result |-> FALSE]

\* --------------------------------------------------------- the packet queue
IsSorted(q) == \A i \in 1..(Len(q) - 1) : q[i].dts <= q[i + 1].dts

InsertAt(q, i, e) == SubSeq(q, 1, i) \o <<e>> \o SubSeq(q, i + 1, Len(q))

\* packets_.emplace(type, packet): the queues that can result.
Emplace(q, e) ==
    {InsertAt(q, i, e) : i \in {j \in 0..Len(q) : IsSorted(InsertAt(q, j, e))}}

Init ==
    /\ streams_ = [t \in StreamTypes |-> NoManager]
    /\ seeking_ = FALSE
    /\ seek_segment_set_ = [t \in StreamTypes |-> FALSE]
    /\ seek_segment_video_time_ = 0
    /\ buffered_packets_timestamp_ = [t \in StreamTypes |-> 0]
    /\ packets_ = <<>>
    /\ waiting = NoPacket
    /\ stale = FALSE
    /\ spinning = FALSE
    /\ accepted = 0
    /\ in_order = [t \in StreamTypes |-> TRUE]
    /\ handed_dts = [t \in StreamTypes |-> NoTime]
    /\ video_resolved = NoTime
    /\ seek_ended_at = NoPacket
    /\ overtaken = FALSE
    /\ last = Call("Init")

\* ----------------------------------------------------------- PrepareForSeek
\* A bug: the stored video segment time is set to the seek target.
PrepareForSeekStoresTime(to_time) ==
    /\ ~spinning
    /\ packets_' = <<>>
    /\ seeking_' = TRUE
    /\ seek_segment_set_' = [t \in StreamTypes |-> FALSE]
    /\ seek_segment_video_time_' = to_time
    /\ buffered_packets_timestamp_' = [t \in StreamTypes |-> 0]
    /\ in_order' = [t \in StreamTypes |-> TRUE]
    /\ handed_dts' = [t \in StreamTypes |-> NoTime]
    /\ video_resolved' = NoTime
    /\ seek_ended_at' = NoPacket
    /\ overtaken' = FALSE
    /\ stale' = (waiting # NoPacket)
    /\ last' = Call("PrepareForSeek")
    /\ UNCHANGED <<streams_, waiting, spinning, accepted>>

PrepareForSeek(to_time) ==
    /\ ~spinning
    /\ packets_' = <<>>
    /\ seeking_' = TRUE
    /\ seek_segment_set_' = [t \in StreamTypes |-> FALSE]
    /\ seek_segment_video_time_' = 0
    /\ buffered_packets_timestamp_' = [t \in StreamTypes |-> 0]
    /\ in_order' = [t \in StreamTypes |-> TRUE]
    /\ handed_dts' = [t \in StreamTypes |-> NoTime]
    /\ video_resolved' = NoTime
    /\ seek_ended_at' = NoPacket
    /\ overtaken' = FALSE
    /\ stale' = (waiting # NoPacket)
    /\ last' = Call("PrepareForSeek")
    /\ UNCHANGED <<streams_, waiting, spinning, accepted>>

\* --------------------------------------------------------------- OnEsPacket
StreamOf(message) ==
    IF message = "kAudioPkt" THEN kAudioStreamId ELSE kVideoStreamId

\* A bug: a packet is taken whether its stream has a manager or not.
PassesChecksWithoutManager(streams, message, is_seeking) ==
    /\ message \in {"kAudioPkt", "kVideoPkt"}
    /\ ~is_seeking

\* Lines 53-69: the switch on the message and the two checks of the stream.
\* is_seeking is what the stream's manager answers to IsSeeking().
PassesChecks(streams, message, is_seeking) ==
    /\ message \in {"kAudioPkt", "kVideoPkt"}
    /\ streams[StreamOf(message)] # NoManager
    /\ ~is_seeking

\* The part of OnEsPacket before packets_lock_ is taken.  `limit` bounds the
\* packets that pass the checks in one behaviour.
OnEsPacket(limit, message, dts, key, is_seeking) ==
    /\ waiting = NoPacket
    /\ IF PassesChecks(streams_, message, is_seeking)
       THEN /\ accepted < limit
            /\ waiting' = [type |-> StreamOf(message), dts |-> dts, key |-> key]
            /\ accepted' = accepted + 1
       ELSE UNCHANGED <<waiting, accepted>>
    /\ last' = [Call("OnEsPacket") EXCEPT
                    !.result = PassesChecks(streams_, message, is_seeking),
                    !.rejected = \/ message \notin {"kAudioPkt", "kVideoPkt"}
                                 \/ streams_[StreamOf(message)] = NoManager
                                 \/ is_seeking]
    /\ UNCHANGED <<program, stale, spinning, in_order, handed_dts, video_resolved,
                   seek_ended_at, overtaken>>

\* A bug: the horizon of the other stream is set.
RecordArrivalOtherStream(timestamps, packet) ==
    [timestamps EXCEPT ![1 - packet.type] = packet.dts]

\* Line 71.
RecordArrival(timestamps, packet) ==
    [timestamps EXCEPT ![packet.type] = packet.dts]

\* Lines 70-72: under packets_lock_, the horizon of the stream is set to the
\* packet's DTS and the packet is put in the queue.
OnEsPacketLocked ==
    /\ waiting # NoPacket
    /\ ~spinning
    /\ buffered_packets_timestamp_' =
           RecordArrival(buffered_packets_timestamp_, waiting)
    /\ packets_' \in Emplace(packets_, waiting)
    /\ in_order' = [in_order EXCEPT ![waiting.type] =
           @ /\ waiting.dts >= buffered_packets_timestamp_[waiting.type]]
    /\ waiting' = NoPacket
    /\ stale' = FALSE
    /\ overtaken' = \/ overtaken
                     \/ /\ seek_ended_at # NoPacket
                        /\ waiting.dts <= seek_ended_at.dts
    /\ last' = Call("OnEsPacketLocked")
    /\ UNCHANGED <<streams_, seeking_, seek_segment_set_, seek_segment_video_time_,
                   spinning, accepted, handed_dts, video_resolved, seek_ended_at>>

\* --------------------------------------------------------------- OnSeekData
\* A bug: the audio manager's segment is set without waiting for the video
\* manager's.
OnSeekDataNoWait(type, new_time, video_segment_start) ==
    LET audio == streams_[kAudioStreamId] # NoManager /\ type = kAudioStreamId
        video == ~audio /\ streams_[kVideoStreamId] # NoManager /\ type = kVideoStreamId
        set == IF audio THEN [seek_segment_set_ EXCEPT ![kAudioStreamId] = TRUE]
               ELSE IF video THEN [seek_segment_set_ EXCEPT ![kVideoStreamId] = TRUE]
               ELSE seek_segment_set_
        video_time == IF video THEN video_segment_start ELSE seek_segment_video_time_
        audio_segment_set == set[kAudioStreamId]
        seek_audio_to_time == IF streams_[kVideoStreamId] # NoManager
                              THEN video_time ELSE new_time
        call == [Call("OnSeekData") EXCEPT !.type = type, !.new_time = new_time]
    IN  /\ seek_segment_set_' = set
        /\ seek_segment_video_time_' = video_time
        /\ video_resolved' = IF video THEN video_segment_start ELSE video_resolved
        /\ last' = IF (audio \/ video) /\ streams_[kAudioStreamId] # NoManager
                      /\ audio_segment_set
                   THEN [call EXCEPT !.audio_seek_to = seek_audio_to_time]
                   ELSE call
        /\ UNCHANGED <<streams_, seeking_, buffered_packets_timestamp_, packets_,
                       waiting, stale, spinning, accepted, in_order, handed_dts,
                       seek_ended_at, overtaken>>

\* video_segment_start is what the video manager's SetSegmentToTime returns.
OnSeekData(type, new_time, video_segment_start) ==
    LET audio == streams_[kAudioStreamId] # NoManager /\ type = kAudioStreamId
        video == ~audio /\ streams_[kVideoStreamId] # NoManager /\ type = kVideoStreamId
        set == IF audio THEN [seek_segment_set_ EXCEPT ![kAudioStreamId] = TRUE]
               ELSE IF video THEN [seek_segment_set_ EXCEPT ![kVideoStreamId] = TRUE]
               ELSE seek_segment_set_
        video_time == IF video THEN video_segment_start ELSE seek_segment_video_time_
        video_segment_set == streams_[kVideoStreamId] = NoManager \/ set[kVideoStreamId]
        audio_segment_set == set[kAudioStreamId]
        seek_audio_to_time == IF streams_[kVideoStreamId] # NoManager
                              THEN video_time ELSE new_time
        call == [Call("OnSeekData") EXCEPT !.type = type, !.new_time = new_time]
    IN  /\ seek_segment_set_' = set
        /\ seek_segment_video_time_' = video_time
        /\ video_resolved' = IF video THEN video_segment_start ELSE video_resolved
        /\ last' = IF (audio \/ video) /\ streams_[kAudioStreamId] # NoManager
                      /\ audio_segment_set /\ video_segment_set
                   THEN [call EXCEPT !.audio_seek_to = seek_audio_to_time]
                   ELSE call
        /\ UNCHANGED <<streams_, seeking_, buffered_packets_timestamp_, packets_,
                       waiting, stale, spinning, accepted, in_order, handed_dts,
                       seek_ended_at, overtaken>>

\* --------------------------------------------------- CheckSeekEndConditions
\* A bug: any packet of the gating stream ends the seek.
EndsSeekWithoutKey(streams, packet) ==
    \/ streams[kVideoStreamId] # NoManager /\ packet.type = kVideoStreamId
    \/ /\ streams[kVideoStreamId] = NoManager
       /\ streams[kAudioStreamId] # NoManager
       /\ packet.type = kAudioStreamId

\* A bug: the keyframe flag is tested for Video packets only.
EndsSeekAtAnyAudio(streams, packet) ==
    \/ /\ streams[kVideoStreamId] # NoManager
       /\ packet.type = kVideoStreamId
       /\ packet.key
    \/ /\ streams[kVideoStreamId] = NoManager
       /\ streams[kAudioStreamId] # NoManager
       /\ packet.type = kAudioStreamId

\* The test of lines 140-142.
EndsSeek(streams, packet) ==
    /\ \/ streams[kVideoStreamId] # NoManager /\ packet.type = kVideoStreamId
       \/ /\ streams[kVideoStreamId] = NoManager
          /\ streams[kAudioStreamId] # NoManager
          /\ packet.type = kAudioStreamId
    /\ packet.key

\* A bug: the entry that ends the seek is popped like the ones before it.
RECURSIVE SeekEndLoopPopsLast(_, _, _, _)
SeekEndLoopPopsLast(streams, q, buffered_time, dropped) ==
    IF q = <<>>
    THEN [packets |-> q, seeking |-> TRUE, discarded |-> dropped]
    ELSE IF buffered_time < Head(q).dts
    THEN [packets |-> q, seeking |-> TRUE, discarded |-> dropped]
    ELSE IF EndsSeek(streams, Head(q))
    THEN [packets |-> Tail(q), seeking |-> FALSE,
          discarded |-> Append(dropped, Head(q))]
    ELSE SeekEndLoopPopsLast(streams, Tail(q), buffered_time,
                             Append(dropped, Head(q)))

\* A bug: the loop does not stop at an entry above buffered_time.
RECURSIVE SeekEndLoopIgnoresTime(_, _, _, _)
SeekEndLoopIgnoresTime(streams, q, buffered_time, dropped) ==
    IF q = <<>>
    THEN [packets |-> q, seeking |-> TRUE, discarded |-> dropped]
    ELSE IF EndsSeek(streams, Head(q))
    THEN [packets |-> q, seeking |-> FALSE, discarded |-> dropped]
    ELSE SeekEndLoopIgnoresTime(streams, Tail(q), buffered_time,
                                Append(dropped, Head(q)))

\* A bug: the entries ahead of the one that ends the seek are not popped.
RECURSIVE SeekEndLoopKeepsEarlier(_, _, _, _)
SeekEndLoopKeepsEarlier(streams, q, buffered_time, dropped) ==
    IF q = <<>>
    THEN [packets |-> q, seeking |-> TRUE, discarded |-> dropped]
    ELSE IF buffered_time < Head(q).dts
    THEN [packets |-> q, seeking |-> TRUE, discarded |-> dropped]
    ELSE IF EndsSeek(streams, Head(q))
    THEN [packets |-> dropped \o q, seeking |-> FALSE, discarded |-> <<>>]
    ELSE SeekEndLoopKeepsEarlier(streams, Tail(q), buffered_time,
                                 Append(dropped, Head(q)))

\* The loop of lines 135-152; `dropped` collects the entries popped.
RECURSIVE SeekEndLoop(_, _, _, _)
SeekEndLoop(streams, q, buffered_time, dropped) ==
    IF q = <<>>
    THEN [packets |-> q, seeking |-> TRUE, discarded |-> dropped]
    ELSE IF buffered_time < Head(q).dts
    THEN [packets |-> q, seeking |-> TRUE, discarded |-> dropped]
    ELSE IF EndsSeek(streams, Head(q))
    THEN [packets |-> q, seeking |-> FALSE, discarded |-> dropped]
    ELSE SeekEndLoop(streams, Tail(q), buffered_time, Append(dropped, Head(q)))

CheckSeekEndConditions(streams, q, buffered_time) ==
    SeekEndLoop(streams, q, buffered_time, <<>>)

\* ------------------------------------------------------------ AppendPackets
\* A bug: the loop tests the horizon alone.
MayAppendNoThreshold(dts, playback_time, buffered_time) ==
    dts < buffered_time

\* The two conditions of the while loop, lines 162-163.
MayAppend(dts, playback_time, buffered_time) ==
    /\ dts - playback_time < kAppendPacketsThreshold
    /\ dts < buffered_time

\* A bug: stream_id is the index of the other stream.
HandedToOtherStream(streams, packet) ==
    [sink |-> streams[1 - packet.type], type |-> 1 - packet.type,
     dts |-> packet.dts, key |-> packet.key]

\* streams_[stream_id]->AppendPacket(packet): the manager called, the stream
\* it is bound to, and the packet.
Handed(streams, packet) ==
    [sink |-> streams[packet.type], type |-> packet.type, dts |-> packet.dts,
     key |-> packet.key]

\* A bug: a hand-off pops the entry handed over and the one behind it.
RECURSIVE AppendLoopPopsTwice(_, _, _, _, _)
AppendLoopPopsTwice(streams, q, playback_time, buffered_time, handed) ==
    IF q = <<>>
    THEN [packets |-> q, handed |-> handed, returns |-> TRUE]
    ELSE IF ~MayAppend(Head(q).dts, playback_time, buffered_time)
    THEN [packets |-> q, handed |-> handed, returns |-> TRUE]
    ELSE IF streams[Head(q).type] # NoManager
    THEN AppendLoopPopsTwice(streams, SubSeq(q, 3, Len(q)), playback_time,
                             buffered_time,
                             Append(handed, Handed(streams, Head(q))))
    ELSE [packets |-> q, handed |-> handed, returns |-> FALSE]

\* A bug: the loop ends after the first hand-off.
AppendLoopHandsOne(streams, q, playback_time, buffered_time, handed) ==
    IF q = <<>>
    THEN [packets |-> q, handed |-> handed, returns |-> TRUE]
    ELSE IF ~MayAppend(Head(q).dts, playback_time, buffered_time)
    THEN [packets |-> q, handed |-> handed, returns |-> TRUE]
    ELSE IF streams[Head(q).type] # NoManager
    THEN [packets |-> Tail(q), handed |-> Append(handed, Handed(streams, Head(q))),
          returns |-> TRUE]
    ELSE [packets |-> q, handed |-> handed, returns |-> FALSE]

\* The loop of lines 158-179.  returns is FALSE when the loop cannot end: an
\* entry that passes both conditions and whose stream has no manager is not
\* popped (lines 173-175), and the loop tests the same entry again.
RECURSIVE AppendLoop(_, _, _, _, _)
AppendLoop(streams, q, playback_time, buffered_time, handed) ==
    IF q = <<>>
    THEN [packets |-> q, handed |-> handed, returns |-> TRUE]
    ELSE IF ~MayAppend(Head(q).dts, playback_time, buffered_time)
    THEN [packets |-> q, handed |-> handed, returns |-> TRUE]
    ELSE IF streams[Head(q).type] # NoManager
    THEN AppendLoop(streams, Tail(q), playback_time, buffered_time,
                    Append(handed, Handed(streams, Head(q))))
    ELSE [packets |-> q, handed |-> handed, returns |-> FALSE]

AppendPackets(streams, q, playback_time, buffered_time) ==
    AppendLoop(streams, q, playback_time, buffered_time, <<>>)

\* ------------------------------------------------------------- UpdateBuffer
Min(a, b) == IF a < b THEN a ELSE b

\* Lines 187-195.
BufferedTime(streams, timestamps) ==
    LET video == IF streams[kVideoStreamId] # NoManager
                 THEN Min(TimeTicksMax, timestamps[kVideoStreamId])
                 ELSE TimeTicksMax
    IN  IF streams[kAudioStreamId] # NoManager
        THEN Min(video, timestamps[kAudioStreamId])
        ELSE video

\* The DTS of the last entry of `handed` for the stream, else `before`.
RECURSIVE LastDts(_, _, _)
LastDts(handed, type, before) ==
    IF handed = <<>> THEN before
    ELSE LastDts(Tail(handed), type,
                 IF Head(handed).type = type THEN Head(handed).dts ELSE before)

\* A bug: the call paces the queue without looking at seeking_.
UpdateBufferIgnoringSeek(playback_time) ==
    LET buffered_time == BufferedTime(streams_, buffered_packets_timestamp_)
        check == [packets |-> packets_, seeking |-> seeking_, discarded |-> <<>>]
        append == AppendPackets(streams_, check.packets, playback_time,
                                buffered_time)
    IN  /\ ~spinning
        /\ seeking_' = check.seeking
        /\ packets_' = append.packets
        /\ spinning' = ~append.returns
        /\ handed_dts' = [t \in StreamTypes |->
                              LastDts(append.handed, t, handed_dts[t])]
        /\ seek_ended_at' = IF append.handed # <<>> THEN NoPacket
                            ELSE IF seeking_ /\ ~check.seeking /\ check.packets # <<>>
                            THEN Head(check.packets)
                            ELSE seek_ended_at
        /\ overtaken' = (overtaken /\ append.handed = <<>>)
        /\ last' = [Call("UpdateBuffer") EXCEPT
                        !.after_seek = seeking_ \/ seek_ended_at # NoPacket,
                        !.time = playback_time,
                        !.was_seeking = seeking_,
                        !.discarded = check.discarded,
                        !.handed = append.handed,
                        !.result = append.returns /\ append.packets # <<>>]
        /\ UNCHANGED <<streams_, seek_segment_set_, seek_segment_video_time_,
                       buffered_packets_timestamp_, waiting, stale, accepted,
                       in_order, video_resolved>>

\* A bug: the value returned is whether the queue held entries when the
\* call began.
UpdateBufferReturnsEarly(playback_time) ==
    LET buffered_time == BufferedTime(streams_, buffered_packets_timestamp_)
        check == IF seeking_
                 THEN CheckSeekEndConditions(streams_, packets_, buffered_time)
                 ELSE [packets |-> packets_, seeking |-> FALSE, discarded |-> <<>>]
        append == IF ~check.seeking
                  THEN AppendPackets(streams_, check.packets, playback_time,
                                     buffered_time)
                  ELSE [packets |-> check.packets, handed |-> <<>>, returns |-> TRUE]
    IN  /\ ~spinning
        /\ seeking_' = check.seeking
        /\ packets_' = append.packets
        /\ spinning' = ~append.returns
        /\ handed_dts' = [t \in StreamTypes |->
                              LastDts(append.handed, t, handed_dts[t])]
        /\ seek_ended_at' = IF append.handed # <<>> THEN NoPacket
                            ELSE IF seeking_ /\ ~check.seeking /\ check.packets # <<>>
                            THEN Head(check.packets)
                            ELSE seek_ended_at
        /\ overtaken' = (overtaken /\ append.handed = <<>>)
        /\ last' = [Call("UpdateBuffer") EXCEPT
                        !.after_seek = seeking_ \/ seek_ended_at # NoPacket,
                        !.time = playback_time,
                        !.was_seeking = seeking_,
                        !.discarded = check.discarded,
                        !.handed = append.handed,
                        !.result = append.returns /\ packets_ # <<>>]
        /\ UNCHANGED <<streams_, seek_segment_set_, seek_segment_video_time_,
                       buffered_packets_timestamp_, waiting, stale, accepted,
                       in_order, video_resolved>>

UpdateBuffer(playback_time) ==
    LET buffered_time == BufferedTime(streams_, buffered_packets_timestamp_)
        check == IF seeking_
                 THEN CheckSeekEndConditions(streams_, packets_, buffered_time)
                 ELSE [packets |-> packets_, seeking |-> FALSE, discarded |-> <<>>]
        append == IF ~check.seeking
                  THEN AppendPackets(streams_, check.packets, playback_time,
                                     buffered_time)
                  ELSE [packets |-> check.packets, handed |-> <<>>, returns |-> TRUE]
    IN  /\ ~spinning
        /\ seeking_' = check.seeking
        /\ packets_' = append.packets
        /\ spinning' = ~append.returns
        /\ handed_dts' = [t \in StreamTypes |->
                              LastDts(append.handed, t, handed_dts[t])]
        /\ seek_ended_at' = IF append.handed # <<>> THEN NoPacket
                            ELSE IF seeking_ /\ ~check.seeking /\ check.packets # <<>>
                            THEN Head(check.packets)
                            ELSE seek_ended_at
        /\ overtaken' = (overtaken /\ append.handed = <<>>)
        /\ last' = [Call("UpdateBuffer") EXCEPT
                        !.after_seek = seeking_ \/ seek_ended_at # NoPacket,
                        !.time = playback_time,
                        !.was_seeking = seeking_,
                        !.discarded = check.discarded,
                        !.handed = append.handed,
                        !.result = append.returns /\ append.packets # <<>>]
        /\ UNCHANGED <<streams_, seek_segment_set_, seek_segment_video_time_,
                       buffered_packets_timestamp_, waiting, stale, accepted,
                       in_order, video_resolved>>

\* ---------------------------------------------------------------- SetStream
SetStream(type, manager) ==
    /\ ~spinning
    /\ streams_' = [streams_ EXCEPT ![type] = manager]
    /\ last' = Call("SetStream")
    /\ UNCHANGED <<seeking_, seek_segment_set_, seek_segment_video_time_,
                   buffered_packets_timestamp_, packets_, waiting, stale,
                   spinning, accepted, in_order, handed_dts, video_resolved,
                   seek_ended_at, overtaken>>

\* ----------------------------------------------------------- specifications
\* The calls of the driver that take packets_lock_ or bind a stream.
Driver ==
    \/ \E to_time \in SeekTimes : PrepareForSeek(to_time)
    \/ \E playback_time \in PlaybackTimes : UpdateBuffer(playback_time)
    \/ \E type \in StreamTypes, manager \in Managers \cup {NoManager} :
          SetStream(type, manager)

\* The demuxers: at most `limit` packets pass the checks, with a keyframe
\* flag from `keys`.
Demuxers(limit, keys) ==
    \/ \E message \in Messages, dts \in DtsValues, key \in keys,
          is_seeking \in BOOLEAN :
              OnEsPacket(limit, message, dts, key, is_seeking)
    \/ OnEsPacketLocked

SeekData ==
    \E type \in StreamTypes, new_time \in SeekTimes,
       video_segment_start \in SeekTimes :
           OnSeekData(type, new_time, video_segment_start)

\* Every operation, any interleaving.
Next == Driver \/ Demuxers(MaxPackets, BOOLEAN) \/ SeekData

Spec == Init /\ [][Next]_vars

\* Longer packet sequences, without the OnSeekData events (which neither read
\* nor write the queue, the horizons or seeking_).
NextFlow == Driver \/ Demuxers(MaxFlowPackets, BOOLEAN)

SpecFlow == Init /\ [][NextFlow]_vars

\* The longest packet sequences: every packet is a keyframe.
NextOrder == Driver \/ Demuxers(MaxOrderPackets, {TRUE})

SpecOrder == Init /\ [][NextOrder]_vars

\* A playback time that no DTS is ahead of: the first condition of the
\* pacing holds for every packet.
LatePlaybackTime == TimeStep * MaxDtsSteps

\* Playback with no seek: the streams are bound before the first packet, the
\* demuxers deliver at most MaxLivePackets packets, those of one stream in
\* DTS order, and then only end-of-stream and other messages, and
\* PrepareForSeek is never called.
NextLive ==
    \/ /\ accepted = 0
       /\ \E type \in StreamTypes, manager \in Managers \cup {NoManager} :
              SetStream(type, manager)
    \/ \E playback_time \in PlaybackTimes \cup {LatePlaybackTime} :
          UpdateBuffer(playback_time)
    \/ /\ Demuxers(MaxLivePackets, {TRUE})
       /\ \A t \in StreamTypes : in_order'[t]

\* The player keeps calling UpdateBuffer as the playback time grows, and a
\* demuxer thread that waits for packets_lock_ gets it.
SpecLive ==
    /\ Init
    /\ [][NextLive]_vars
    /\ WF_vars(UpdateBuffer(LatePlaybackTime))
    /\ WF_vars(OnEsPacketLocked)
\* ------------------------------------------------------------------- claims
Registered(t) == streams_[t] # NoManager

\* The entries the call recorded in `c` handed over, as queue entries.
HandedPackets(c) ==
    [i \in 1..Len(c.handed) |->
        [type |-> c.handed[i].type, dts |-> c.handed[i].dts,
         key |-> c.handed[i].key]]

\* C1: a packet is handed to a manager only while seeking_ is false: an
\* UpdateBuffer call that handed anything over ran its pacing with no seek
\* in progress, and no step that leaves seeking_ true hands anything over.
C1_HandOffOnlyWhenNotSeeking ==
    last.handed # <<>> => last.op = "UpdateBuffer" /\ ~seeking_

\* A call that found a seek in progress, ended it and handed packets over.
C1_Witness ==
    /\ last.op = "UpdateBuffer"
    /\ last.was_seeking
    /\ ~seeking_
    /\ last.handed # <<>>

\* C2 as stated: the DTS of the packets handed to one stream since the last
\* PrepareForSeek never decrease, whatever the arrival order.
C2_Original ==
    [][\A i \in 1..Len(last'.handed) :
          /\ handed_dts[last'.handed[i].type] <= last'.handed[i].dts
          /\ \A j \in 1..(i - 1) :
                last'.handed[j].type = last'.handed[i].type
                    => last'.handed[j].dts <= last'.handed[i].dts]_vars

\* C2, amended: they never decrease for a stream whose packets were inserted
\* in non-decreasing DTS order since the last PrepareForSeek.
C2_OrderedWhenInsertedInOrder ==
    [][\A i \in 1..Len(last'.handed) :
          in_order'[last'.handed[i].type] =>
              /\ handed_dts[last'.handed[i].type] <= last'.handed[i].dts
              /\ \A j \in 1..(i - 1) :
                    last'.handed[j].type = last'.handed[i].type
                        => last'.handed[j].dts <= last'.handed[i].dts]_vars

\* A call handed a stream, whose packets came in order, two packets of
\* different DTS.
C2_Witness ==
    /\ last.op = "UpdateBuffer"
    /\ \E t \in StreamTypes :
          /\ in_order[t]
          /\ \E i, j \in 1..Len(last.handed) :
                /\ i < j
                /\ last.handed[i].type = t
                /\ last.handed[j].type = t
                /\ last.handed[i].dts < last.handed[j].dts

Kept == HandedPackets(last') \o packets_'

\* The same entries, in the state the call left.
KeptNow == HandedPackets(last) \o packets_

\* C4: while a Video manager is registered, seeking_ turns false only in an
\* UpdateBuffer step, at a Video keyframe whose DTS is at most the horizon
\* of every registered stream, which the end-check leaves first in the queue.
C4_VideoSeekEndsAtVideoKeyframe ==
    [][(seeking_ /\ ~seeking_' /\ Registered(kVideoStreamId)) =>
          /\ last'.op = "UpdateBuffer"
          /\ Kept # <<>>
          /\ Kept[1].type = kVideoStreamId
          /\ Kept[1].key
          /\ Kept[1] = packets_[Len(last'.discarded) + 1]
          /\ \A t \in StreamTypes :
                Registered(t) => Kept[1].dts <= buffered_packets_timestamp_[t]]_vars

\* A seek ended with a Video manager registered, after the end-check
\* discarded at least one entry.
C4_Witness ==
    /\ last.op = "UpdateBuffer"
    /\ last.was_seeking
    /\ ~seeking_
    /\ Registered(kVideoStreamId)
    /\ Len(last.discarded) > 0
MinOf(S) == CHOOSE x \in S : \A y \in S : x <= y

\* An UpdateBuffer step that finds a seek in progress and only an Audio
\* manager registered.
AudioOnlySeekStep ==
    /\ last'.op = "UpdateBuffer"
    /\ seeking_
    /\ ~Registered(kVideoStreamId)
    /\ Registered(kAudioStreamId)

\* The Audio entries at or below the horizon of the Audio stream; with
\* `keyed`, those among them that carry the keyframe flag.
AudioEntries(keyed) ==
    {i \in 1..Len(packets_) :
        /\ packets_[i].type = kAudioStreamId
        /\ packets_[i].dts <= buffered_packets_timestamp_[kAudioStreamId]
        /\ keyed => packets_[i].key}

BothSeekEndStep ==
    /\ last'.op = "UpdateBuffer"
    /\ seeking_
    /\ ~seeking_'
    /\ Registered(kVideoStreamId)
    /\ Registered(kAudioStreamId)

\* C6 as stated: when the seek ends at a Video keyframe of DTS k, the
\* end-check has removed every entry of DTS <= k, the keyframe included.
C6_Original ==
    [][BothSeekEndStep =>
          \A i \in 1..Len(Kept) :
              Kept[i].dts > packets_[Len(last'.discarded) + 1].dts]_vars

\* C6, amended: the end-check has removed every entry of DTS < k and the
\* entries of DTS k ahead of the keyframe; the keyframe, the entries of DTS k
\* behind it and every entry of DTS > k stay in the queue for the pacing.
C6_KeyframeAndLaterEntriesKept ==
    [][BothSeekEndStep =>
          /\ Kept # <<>>
          /\ Kept[1].type = kVideoStreamId
          /\ Kept[1].key
          /\ Len(last'.discarded) = Len(packets_) - Len(Kept)
          /\ Kept = SubSeq(packets_, Len(last'.discarded) + 1, Len(packets_))
          /\ \A i \in 1..Len(packets_) :
                /\ packets_[i].dts < Kept[1].dts => i <= Len(last'.discarded)
                /\ packets_[i].dts > Kept[1].dts => i > Len(last'.discarded)
                /\ i <= Len(last'.discarded) => ~EndsSeek(streams_, packets_[i])]_vars

\* With both managers registered a seek ended at a keyframe: an entry was
\* discarded, and the keyframe and a later entry were kept.
C6_Witness ==
    /\ last.op = "UpdateBuffer"
    /\ last.was_seeking
    /\ ~seeking_
    /\ Registered(kVideoStreamId)
    /\ Registered(kAudioStreamId)
    /\ last.discarded # <<>>
    /\ Len(KeptNow) >= 2
    /\ KeptNow[1].type = kVideoStreamId
    /\ KeptNow[2].dts > KeptNow[1].dts

\* C7: PrepareForSeek leaves the queue empty, seeking_ true, both horizons
\* 0, both segment flags false and the stored video segment time 0, and
\* does not touch the stream registrations: the state it leaves is the same
\* whatever to_time and the state before are.
C7_PrepareForSeekResets ==
    [][last'.op = "PrepareForSeek" =>
          /\ packets_' = <<>>
          /\ seeking_'
          /\ \A t \in StreamTypes :
                /\ buffered_packets_timestamp_'[t] = 0
                /\ ~seek_segment_set_'[t]
          /\ seek_segment_video_time_' = 0
          /\ streams_' = streams_]_vars

\* PrepareForSeek has just returned, with both managers registered, after
\* packets were queued.
C7_Witness ==
    /\ last.op = "PrepareForSeek"
    /\ Registered(kVideoStreamId)
    /\ Registered(kAudioStreamId)
    /\ accepted = MaxPackets
    /\ waiting = NoPacket

\* C8 as stated: every entry of the queue carries the tag of a stream whose
\* manager is registered.
C8_QueuedStreamsRegistered ==
    \A i \in 1..Len(packets_) : Registered(packets_[i].type)

\* C9 as stated: an UpdateBuffer call whose pacing meets an entry that passes
\* both conditions and whose stream has no manager removes the entry, goes
\* on and returns: after the call, the queue is empty or its first entry
\* fails one of the two conditions.
C9_PacingDropsAndReturns ==
    (last.op = "UpdateBuffer" /\ ~seeking_) =>
        /\ ~spinning
        /\ \/ packets_ = <<>>
           \/ ~MayAppend(Head(packets_).dts, last.time,
                         BufferedTime(streams_, buffered_packets_timestamp_))

\* C10 as stated: only PrepareForSeek lowers the horizon of a stream.
C10_Original ==
    [][\A t \in StreamTypes :
          buffered_packets_timestamp_'[t] < buffered_packets_timestamp_[t]
              => last'.op = "PrepareForSeek"]_vars

\* C10, amended: the horizon of a stream is changed only by PrepareForSeek,
\* which sets it to 0, and by the locked part of OnEsPacket, which sets the
\* horizon of the packet's stream to the packet's DTS, lower or not.
C10_HorizonFollowsLastPacket ==
    [][/\ \A t \in StreamTypes :
             buffered_packets_timestamp_'[t] # buffered_packets_timestamp_[t] =>
                 \/ /\ last'.op = "PrepareForSeek"
                    /\ buffered_packets_timestamp_'[t] = 0
                 \/ /\ last'.op = "OnEsPacketLocked"
                    /\ waiting.type = t
       /\ last'.op = "OnEsPacketLocked" =>
             buffered_packets_timestamp_'[waiting.type] = waiting.dts]_vars

\* A packet was inserted whose DTS is below the horizon its stream had: the
\* insertion lowered the horizon.
C10_Witness ==
    /\ last.op = "OnEsPacketLocked"
    /\ \E t \in StreamTypes :
          /\ ~in_order[t]
          /\ \E i \in 1..Len(packets_) :
                /\ packets_[i].type = t
                /\ packets_[i].dts > buffered_packets_timestamp_[t]

\* C11: with both managers registered, OnSeekData calls the audio manager's
\* SetSegmentToTime only once an OnSeekData(Video) has been handled since the
\* last PrepareForSeek, and with the segment start that the video manager's
\* SetSegmentToTime returned to it, whichever event came first.
C11_AudioLookupWaitsForVideo ==
    [][(/\ last'.op = "OnSeekData"
        /\ Registered(kVideoStreamId)
        /\ Registered(kAudioStreamId)
        /\ last'.audio_seek_to # NoTime) =>
            /\ video_resolved' # NoTime
            /\ last'.audio_seek_to = video_resolved']_vars

\* With both managers registered, OnSeekData(Audio) came after
\* OnSeekData(Video) and set the audio segment to a time that is not its own.
C11_Witness ==
    /\ last.op = "OnSeekData"
    /\ Registered(kVideoStreamId)
    /\ Registered(kAudioStreamId)
    /\ last.type = kAudioStreamId
    /\ last.audio_seek_to # NoTime
    /\ last.audio_seek_to # last.new_time

\* C12: a queued packet goes to one place only.  UpdateBuffer splits the
\* queue into the entries the end-check discards, the entries handed over
\* (each to the manager registered for the entry's own stream) and the
\* entries that stay; PrepareForSeek empties the queue; the locked part of
\* OnEsPacket adds its packet; no other step changes the queue or hands
\* anything over.
C12_PacketOwnedOnce ==
    [][/\ last'.op = "UpdateBuffer" =>
             /\ packets_ = last'.discarded \o HandedPackets(last') \o packets_'
             /\ \A i \in 1..Len(last'.handed) :
                   /\ last'.handed[i].sink # NoManager
                   /\ last'.handed[i].sink = streams_[last'.handed[i].type]
       /\ last'.op = "PrepareForSeek" => packets_' = <<>>
       /\ last'.op = "OnEsPacketLocked" =>
             \E i \in 0..Len(packets_) : packets_' = InsertAt(packets_, i, waiting)
       /\ last'.op \notin {"UpdateBuffer", "PrepareForSeek", "OnEsPacketLocked"} =>
             packets_' = packets_
       /\ last'.op # "UpdateBuffer" => last'.handed = <<>>]_vars

\* One call discarded an entry, handed an entry over and left an entry.
C12_Witness ==
    /\ last.op = "UpdateBuffer"
    /\ last.discarded # <<>>
    /\ last.handed # <<>>
    /\ packets_ # <<>>
    /\ ~spinning

\* C13: an OnEsPacket call with an end-of-stream or unsupported message, or
\* with a packet whose stream has no manager or whose manager is seeking,
\* changes neither the queue, the horizons, seeking_, the segment flags nor
\* the stored video segment time, and leaves no packet to be inserted.
C13_RejectedPacketChangesNothing ==
    [][(last'.op = "OnEsPacket" /\ last'.rejected) =>
          /\ UNCHANGED program
          /\ waiting' = NoPacket]_vars

\* A call was rejected while the other stream had a manager and a packet
\* queued.
C13_Witness ==
    /\ last.op = "OnEsPacket"
    /\ last.rejected
    /\ \E t \in StreamTypes :
          /\ Registered(t)
          /\ ~Registered(1 - t)
          /\ packets_ # <<>>
          /\ Head(packets_).type = t

\* C14: an UpdateBuffer call that returns, returns true when the queue holds
\* an entry after the end-check and the pacing of the call, and false when
\* the queue is empty then.
C14_ReturnsWhetherQueueHoldsEntries ==
    (last.op = "UpdateBuffer" /\ ~spinning) => (last.result <=> packets_ # <<>>)

\* A call found entries in the queue, discarded them all and returned false.
C14_Witness ==
    /\ last.op = "UpdateBuffer"
    /\ ~spinning
    /\ last.discarded # <<>>
    /\ packets_ = <<>>
    /\ ~last.result

\* The entries of the queue at which the end-check stops: those above
\* buffered_time and those that satisfy the test that ends the seek.
SeekStops ==
    {i \in 1..Len(packets_) :
        \/ packets_[i].dts > BufferedTime(streams_, buffered_packets_timestamp_)
        \/ EndsSeek(streams_, packets_[i])}

\* C15: in an UpdateBuffer call that finds a seek in progress, the end-check
\* removes exactly the entries ahead of the first entry that is above
\* buffered_time or ends the seek (all of them when there is none); seeking_
\* turns false exactly when that first entry exists and is at or below
\* buffered_time, and then it and the entries behind it stay for the pacing;
\* otherwise seeking_ stays true, nothing is handed over and every entry
\* left is above buffered_time.
C15_EndCheckRemovesLongestPrefix ==
    [][(last'.op = "UpdateBuffer" /\ seeking_) =>
          LET n == IF SeekStops = {} THEN Len(packets_) ELSE MinOf(SeekStops) - 1
              rest == SubSeq(packets_, n + 1, Len(packets_))
              buffered_time == BufferedTime(streams_, buffered_packets_timestamp_)
          IN  /\ last'.discarded = SubSeq(packets_, 1, n)
              /\ ~seeking_' <=> (rest # <<>> /\ rest[1].dts <= buffered_time)
              /\ ~seeking_' => Kept = rest /\ EndsSeek(streams_, rest[1])
              /\ seeking_' =>
                    /\ packets_' = rest
                    /\ last'.handed = <<>>
                    /\ \A i \in 1..Len(rest) : rest[i].dts > buffered_time]_vars

\* The end-check discarded an entry, stopped at an entry above buffered_time
\* and left the seek in progress.
C15_Witness ==
    /\ last.op = "UpdateBuffer"
    /\ last.was_seeking
    /\ seeking_
    /\ last.discarded # <<>>
    /\ packets_ # <<>>

\* C16 as stated: every step that changes the queue, a horizon, seeking_, a
\* segment flag or the stored video segment time is made by an operation that
\* holds packets_lock_.
C16_WritesHoldLock ==
    [][<<seeking_, seek_segment_set_, seek_segment_video_time_,
         buffered_packets_timestamp_, packets_>>' #
       <<seeking_, seek_segment_set_, seek_segment_video_time_,
         buffered_packets_timestamp_, packets_>> => last'.locked]_vars

C18_NoInsertionOfEarlierPacket ==
    [][last'.op = "OnEsPacketLocked" => ~stale]_vars

\* The first packet the step hands over is the entry that ended the seek:
\* the one the end-check of this call stopped at, or the one an earlier call
\* stopped at and left in the queue.
FirstHandedEndedSeek ==
    HandedPackets(last')[1] =
        IF seeking_ THEN packets_[Len(last'.discarded) + 1] ELSE seek_ended_at

\* The entry at which the step ends the seek is a keyframe, of the Video
\* stream when a Video manager is registered, else of the Audio stream.
SeekEndsAtGatingKeyframe ==
    (seeking_ /\ ~seeking_') =>
        /\ Kept[1].key
        /\ Kept[1].type = IF Registered(kVideoStreamId)
                          THEN kVideoStreamId ELSE kAudioStreamId

\* C19 as stated: the first packet handed over after a PrepareForSeek is the
\* entry that ended the seek, whatever arrives between the end of the seek
\* and the hand-off.
C19_Original ==
    [][/\ SeekEndsAtGatingKeyframe
       /\ (last'.handed # <<>> /\ (seeking_ \/ seek_ended_at # NoPacket)) =>
              FirstHandedEndedSeek]_vars

\* C19, amended: it is, unless a packet whose DTS is not above that entry's
\* was inserted between the end of the seek and the hand-off.
C19_KeyframeFirstUnlessOvertaken ==
    [][/\ SeekEndsAtGatingKeyframe
       /\ (/\ last'.handed # <<>>
           /\ seeking_ \/ seek_ended_at # NoPacket
           /\ ~overtaken) => FirstHandedEndedSeek]_vars

\* The call that ended the seek handed nothing over; a packet arrived; a
\* later call handed over, first, the keyframe that ended the seek.
C19_Witness ==
    /\ last.op = "UpdateBuffer"
    /\ last.after_seek
    /\ ~last.was_seeking
    /\ last.handed # <<>>
    /\ last.handed[1].key
    /\ last.handed[1].type = kVideoStreamId

\* C20 as stated: with no seek in progress, the streams bound once and for
\* all and UpdateBuffer called again and again with a playback time that no
\* DTS is ahead of, every queued packet is handed over in the end: from some
\* point on the queue is empty.
C20_EveryPacketHandedInTheEnd ==
    <>[](packets_ = <<>>)
====
